---- MODULE Spec2Model ----
(***************************************************************************)
(* Robust regression on the probability simplex: objective, subgrad, pgd   *)
(* (with its nested project_onto_simplex) and mda of                       *)
(* RobustRegressionMDAvsPGD.ipynb, and the Results cell that scores a run. *)
(*                                                                         *)
(* Numbers.  A float is modelled as a pair <<n, d>>: the rational n/d in   *)
(* lowest terms when d > 0, and the IEEE specials when d = 0:              *)
(* <<1,0>> = +inf, <<-1,0>> = -inf, <<0,0>> = nan.  +, -, *, / are exact   *)
(* on finite values and follow IEEE on the specials (x/0 = +-inf,          *)
(* 0/0 = inf-inf = inf*0 = nan, every comparison with nan is false).       *)
(* np.sqrt, np.log and np.exp are evaluated to a finite precision.         *)
(***************************************************************************)
EXTENDS Integers, Sequences, FiniteSets

\* ---------------------------------------------------------------- bounds
MaxT == 3
MaxDim == 3
SqrtPrec == 4
ExpPrec == 4

\* ------------------------------------------------------------ arithmetic
Abs(k) == IF k < 0 THEN -k ELSE k
Sgn(k) == IF k > 0 THEN 1 ELSE IF k < 0 THEN -1 ELSE 0

RECURSIVE GCD(_, _)
GCD(p, q) == IF q = 0 THEN p ELSE GCD(q, p % q)

Q(n, d) ==
    IF d = 0 THEN <<Sgn(n), 0>>
    ELSE LET g == GCD(Abs(n), Abs(d))
         IN  <<Sgn(d) * (n \div g), Abs(d) \div g>>

NaN == <<0, 0>>
Inf == <<1, 0>>
Zero == <<0, 1>>
One == <<1, 1>>
Int2F(k) == <<k, 1>>

IsNaN(a) == a = NaN
IsFinite(a) == a[2] > 0

Neg(a) == <<-a[1], a[2]>>

Add(a, c) ==
    IF IsNaN(a) \/ IsNaN(c) THEN NaN
    ELSE IF a[2] = 0 /\ c[2] = 0 THEN (IF a[1] = c[1] THEN a ELSE NaN)
    ELSE IF a[2] = 0 THEN a
    ELSE IF c[2] = 0 THEN c
    ELSE LET g == GCD(a[2], c[2])
         IN  Q(a[1] * (c[2] \div g) + c[1] * (a[2] \div g), (a[2] \div g) * c[2])

Sub(a, c) == Add(a, Neg(c))

Mul(a, c) ==
    IF IsNaN(a) \/ IsNaN(c) THEN NaN
    ELSE IF a[2] = 0 \/ c[2] = 0 THEN Q(a[1] * c[1], 0)
    ELSE LET g1 == GCD(Abs(a[1]), c[2])
             g2 == GCD(Abs(c[1]), a[2])
         IN  Q((a[1] \div g1) * (c[1] \div g2), (a[2] \div g2) * (c[2] \div g1))

\* 1/a; the zeros the programs divide by are +0.0 (a sqrt, a sum of abs)
Recip(a) ==
    IF IsNaN(a) THEN NaN
    ELSE IF a[2] = 0 THEN Zero
    ELSE IF a[1] = 0 THEN Inf
    ELSE <<Sgn(a[1]) * a[2], Abs(a[1])>>

Div(a, c) == Mul(a, Recip(c))

Lt(a, c) ==
    IF IsNaN(a) \/ IsNaN(c) THEN FALSE
    ELSE IF a[2] = 0 \/ c[2] = 0
         THEN (IF a[2] = 0 /\ c[2] = 0 THEN a[1] < c[1]
               ELSE IF a[2] = 0 THEN a[1] < 0 ELSE c[1] > 0)
    ELSE LET g == GCD(a[2], c[2])
         IN  a[1] * (c[2] \div g) < c[1] * (a[2] \div g)

Gt(a, c) == Lt(c, a)

FAbs(a) == <<Abs(a[1]), a[2]>>
\* np.sign: -1, 0, 1, and nan for nan
Sign(a) == IF IsNaN(a) THEN NaN ELSE Int2F(Sgn(a[1]))
\* np.maximum(a, c): propagates nan
Maximum(a, c) == IF IsNaN(a) \/ IsNaN(c) THEN NaN ELSE IF Lt(a, c) THEN c ELSE a

\* floor(n/d) for d > 0
Floor(n, d) == IF n >= 0 THEN n \div d ELSE -((-n + d - 1) \div d)

\* Python round() of a finite float: round half to even
Round(a) ==
    LET f == Floor(a[1], a[2])
        r2 == 2 * (a[1] - f * a[2])
    IN  IF r2 < a[2] THEN f
        ELSE IF r2 > a[2] THEN f + 1
        ELSE IF f % 2 = 0 THEN f ELSE f + 1

IsSquare(k) == \E r \in 0..k : r * r = k
Root(k) == CHOOSE r \in 0..k : r * r = k

\* np.sqrt: exact on squares of rationals, else rounded down to 1/SqrtPrec;
\* nan below zero
Sqrt(a) ==
    IF IsNaN(a) \/ a[1] < 0 THEN NaN
    ELSE IF a[2] = 0 THEN Inf
    ELSE IF IsSquare(a[1]) /\ IsSquare(a[2]) THEN <<Root(a[1]), Root(a[2])>>
    ELSE LET top == a[1] * SqrtPrec * SqrtPrec
             k == CHOOSE r \in 0..(top + 1) :
                     r * r * a[2] <= top /\ (r + 1) * (r + 1) * a[2] > top
         IN  Q(k, SqrtPrec)

\* np.log(m) for an integer m >= 1: 2 * atanh((m-1)/(m+1)), two terms of the
\* series; 0 at m = 1
Log(k) ==
    LET z == Q(k - 1, k + 1)
        z3 == Mul(z, Mul(z, z))
    IN  Mul(Int2F(2), Add(z, Div(z3, Int2F(3))))

\* np.exp: the (2,2) Pade approximant (12 + 6z + z^2) / (12 - 6z + z^2),
\* which is positive for every real z with exp(-z) = 1/exp(z), rounded to the
\* nearest positive multiple of 1/ExpPrec; a double underflows to 0 below
\* -745.14 and overflows to inf above 709.78
Exp(z) ==
    IF IsNaN(z) THEN NaN
    ELSE IF z[2] = 0 THEN (IF z[1] > 0 THEN Inf ELSE Zero)
    ELSE IF Lt(z, Int2F(-746)) THEN Zero
    ELSE IF Lt(Int2F(710), z) THEN Inf
    ELSE LET p == z[1]
             q == z[2]
             num == 12 * q * q + 6 * p * q + p * p
             den == 12 * q * q - 6 * p * q + p * p
             k == Floor(2 * num * ExpPrec + den, 2 * den)
         IN  Q(IF k < 1 THEN 1 ELSE k, ExpPrec)

\* ----------------------------------------------------------------- vectors
RECURSIVE Sum(_)
\* np.sum / a matrix product's accumulation over a 1-d array
Sum(s) == IF s = <<>> THEN Zero ELSE Add(Sum(SubSeq(s, 1, Len(s) - 1)), s[Len(s)])

\* np.cumsum
Cumsum(s) == [k \in 1..Len(s) |-> Sum(SubSeq(s, 1, k))]

\* A @ x for A given as its sequence of rows
MatVec(M, y) == [r \in 1..Len(M) |-> Sum([j \in 1..Len(y) |-> Mul(M[r][j], y[j])])]

\* A.T @ s
TMatVec(M, s, cols) ==
    [j \in 1..cols |-> Sum([r \in 1..Len(M) |-> Mul(M[r][j], s[r])])]

\* np.sort(v)[::-1]: descending, nan (which np.sort puts last) first
Before(a, c) == IsNaN(a) \/ (~IsNaN(c) /\ ~Lt(a, c))

RECURSIVE Insert(_, _)
Insert(s, e) ==
    IF s = <<>> THEN <<e>>
    ELSE IF Before(e, s[1]) THEN <<e>> \o s
    ELSE <<s[1]>> \o Insert(Tail(s), e)

RECURSIVE InsertAsc(_, _)
InsertAsc(s, e) ==
    IF s = <<>> THEN <<e>>
    ELSE IF Before(s[1], e) THEN <<e>> \o s
    ELSE <<s[1]>> \o InsertAsc(Tail(s), e)

RECURSIVE SortAsc(_)
SortAsc(v) == IF v = <<>> THEN <<>> ELSE InsertAsc(SortAsc(Tail(v)), v[1])

RECURSIVE SortDesc(_)
SortDesc(v) == IF v = <<>> THEN <<>> ELSE Insert(SortDesc(Tail(v)), v[1])

SetMax(S) == CHOOSE k \in S : \A j \in S : j <= k
SetMin(S) == CHOOSE k \in S : \A j \in S : k <= j

\* -------------------------------------------------- objective and subgrad
\* objective(A, b, x): (1/len(x)) * np.linalg.norm(A @ x - b, ord=1); the
\* residual is an (n, 1) column, whose 1-norm is the sum of its absolute values
objective(M, t, y) ==
    LET res == MatVec(M, y)
    IN  Mul(Div(One, Int2F(Len(y))),
            Sum([r \in 1..Len(M) |-> FAbs(Sub(res[r], t[r]))]))

\* subgrad(A, b, x): (1/len(x)) * (A.T @ np.sign(A @ x - b))
subgrad(M, t, y) ==
    LET res == MatVec(M, y)
        s == [r \in 1..Len(M) |-> Sign(Sub(res[r], t[r]))]
        tv == TMatVec(M, s, Len(y))
    IN  [j \in 1..Len(y) |-> Mul(Div(One, Int2F(Len(y))), tv[j])]

\* ------------------------------------------------- project_onto_simplex
CssvNoShift(u) == Cumsum(u)
\* cssv = np.cumsum(u) - 1
Cssv(u) == [k \in 1..Len(u) |-> Sub(Cumsum(u)[k], One)]

\* the positions (1-based) where u > cssv / np.arange(1, n+1)
Qualifying(v) ==
    LET u == SortDesc(v)
        cssv == Cssv(u)
    IN  {k \in 1..Len(v) : Gt(u[k], Div(cssv[k], Int2F(k)))}

PickFirst(S) == SetMin(S)
\* np.nonzero(...)[-1][-1]: the last qualifying position
PickRho(S) == SetMax(S)

\* indexing [-1] of an empty index array raises IndexError
ProjectRaises(v) == Qualifying(v) = {}

ThetaOffByOne(cssv, rho) == Div(cssv[rho], Int2F(rho + 1))
\* theta = cssv[rho] / (rho + 1) for the 0-based rho of the source; rho here
\* is the 1-based position, the source's rho + 1
Theta(cssv, rho) == Div(cssv[rho], Int2F(rho))

ClipNothing(a) == a
\* np.maximum(. , 0)
Clip(a) == Maximum(a, Zero)

project_onto_simplex(v) ==
    LET u == SortDesc(v)
        cssv == Cssv(u)
        rho == PickRho(Qualifying(v))
        theta == Theta(cssv, rho)
    IN  [j \in 1..Len(v) |-> Clip(Sub(v[j], theta))]

\* ----------------------------------------------------------------- schedule
\* A.T @ A
Gram(M, cols) ==
    [j \in 1..cols |-> [k \in 1..cols |->
        Sum([r \in 1..Len(M) |-> Mul(M[r][j], M[r][k])])]]

\* np.linalg.eigvals of a symmetric 1x1 or 2x2 matrix: the roots of the
\* characteristic polynomial, (tr +- sqrt(tr^2 - 4 det)) / 2
Eigvals(G) ==
    IF Len(G) = 1 THEN {G[1][1]}
    ELSE LET tr == Add(G[1][1], G[2][2])
             det == Sub(Mul(G[1][1], G[2][2]), Mul(G[1][2], G[2][1]))
             disc == Sub(Mul(tr, tr), Mul(Int2F(4), det))
         IN  {Div(Add(tr, Sqrt(disc)), Int2F(2)), Div(Sub(tr, Sqrt(disc)), Int2F(2))}

\* eigvals(...)[0]: LAPACK fixes no order on the eigenvalues it returns, so
\* the first one is any of them
FirstEigenvalues(G) == Eigvals(G)

\* pgd: L = np.sqrt(np.linalg.eigvals(A.T @ A)[0]) for each possible first
\* eigenvalue
PgdLs(M, cols) == {Sqrt(lam) : lam \in FirstEigenvalues(Gram(M, cols))}
PgdR == One

\* mda: L = 1/m * np.max(np.sum(np.abs(A), axis=0)), m = len(x)
ColAbsSums(M, cols) == [j \in 1..cols |-> Sum([r \in 1..Len(M) |-> FAbs(M[r][j])])]
VecMax(s) == CHOOSE a \in {s[j] : j \in 1..Len(s)} : \A j \in 1..Len(s) : ~Lt(a, s[j])
MdaL(M, cols) == Mul(Div(One, Int2F(cols)), VecMax(ColAbsSums(M, cols)))
MdaR(cols) == Sqrt(Log(cols))
MdaRho == One

Sq(a) == Mul(a, a)

\* epsilon branch: the float horizon, then alpha from it, then T = round(T)
PgdTFloat(l, r, eps) == Sq(Div(Mul(r, l), eps))
MdaTFloat(l, r, eps) == Div(Mul(Sq(Div(Mul(r, l), eps)), Int2F(2)), MdaRho)
PgdAlpha(l, r, t) == Mul(Div(r, l), Sqrt(Div(One, t)))
MdaAlpha(l, r, t) == Mul(Div(r, l), Sqrt(Div(Mul(Int2F(2), MdaRho), t)))

HorizonKeepsT(tf, t) == IF t = <<>> THEN Round(tf) ELSE t[1]
\* the horizon of the epsilon branch: T = round(T), whatever T was passed
Horizon(tf, t) == Round(tf)

RangeEndShort(t) == t - 2
\* range(T-1)
RangeEnd(t) == t - 1

InitialPointFromArg(y) == y
\* np.ones(m)/m with m = len(x)
InitialPoint(y) == [j \in 1..Len(y) |-> Div(One, Int2F(Len(y)))]

WriteColumnInPlace(k) == k + 1
\* x_gd[:,i+1] = ... / x_md[:,i+1] = ...: column i+1 is the (i+2)-th column
WriteColumn(k) == k + 2

FirstColumnNeverRaises(t) == FALSE
\* x_gd[:,0] = ... / x_md[:,0] = ... raises IndexError when the matrix has no
\* column
FirstColumnRaises(t) == t = 0

\* np.zeros((m, T)) as its sequence of T columns
Zeros(cols, t) == [c \in 1..t |-> [j \in 1..cols |-> Zero]]

\* assert not (epsilon is None and T is None)
None == <<>>
AssertSkipped(eps, t) == TRUE
AssertHolds(eps, t) == ~(eps = None /\ t = None)

\* np.mean(traj, axis=1)
Mean(tr, cols) ==
    [j \in 1..cols |-> Div(Sum([c \in 1..Len(tr) |-> tr[c][j]]), Int2F(Len(tr)))]

\* -------------------------------------------------------------------- inputs
Shapes == {<<1, 1>>, <<2, 1>>, <<1, 2>>, <<2, 2>>}
Entries == {Int2F(-1), Zero, One}
Targets == {Zero, One}
Matrices(rows, cols) == [1..rows -> [1..cols -> Entries]]
Columns(rows) == [1..rows -> Targets]
\* the starting-point argument: gen_data's uniform point, or any other vector
StartArgs(cols) == {[j \in 1..cols |-> <<1, cols>>], [j \in 1..cols |-> Int2F(j - 1)]}
Epsilons == {<<3, 4>>, <<2, 1>>}
Optional(S) == {None} \cup {<<e>> : e \in S}

\* --------------------------------------------------------------------- state
VARIABLES
    algo,      \* which optimizer was called: "pgd" or "mda"
    A, b, x,   \* the arguments: matrix (rows), target column, starting point
    epsilon,   \* the argument epsilon: None or <<value>>
    T0,        \* the argument T as passed: None or <<value>>
    T,         \* the local T: the argument, overwritten by the epsilon branch
    L, R,      \* None until computed
    alpha,     \* None until computed
    x_gd,      \* pgd's results matrix, <<>> until allocated
    x_md,      \* mda's results matrix, <<>> until allocated
    i,         \* the number of loop iterations completed (the next index)
    g,         \* the last subgradient computed by the loop, None before
    yi,        \* the loop's local yi as last computed, None before
    pc,        \* "Called", "Init", "Iterating", "Done", "Scored", "Raised"
    err,       \* the exception raised, "" if none
    score,     \* objective of the averaged iterates (Results cell), None before
    proj       \* the projection exercised on its own: see InitProj

vars == <<algo, A, b, x, epsilon, T0, T, L, R, alpha, x_gd, x_md, i, g, yi, pc, err, score, proj>>

m == Len(x)
n == Len(A)
Traj == IF algo = "pgd" THEN x_gd ELSE x_md

Init ==
    /\ algo \in {"pgd", "mda"}
    /\ \E sh \in Shapes :
          /\ A \in Matrices(sh[1], sh[2])
          /\ b \in Columns(sh[1])
          /\ x \in StartArgs(sh[2])
    /\ epsilon \in Optional(Epsilons)
    /\ T0 \in Optional(1..MaxT)
    /\ T = T0
    /\ L = None /\ R = None /\ alpha = None
    /\ x_gd = <<>> /\ x_md = <<>>
    /\ i = 0 /\ g = None /\ yi = None
    /\ pc = "Called" /\ err = "" /\ score = None
    /\ proj = None

\* the assert at the top of pgd and of mda
AssertArgs ==
    /\ pc = "Called"
    /\ IF AssertHolds(epsilon, T)
       THEN pc' = "Init" /\ err' = err
       ELSE pc' = "Raised" /\ err' = "AssertionError"
    /\ UNCHANGED <<algo, A, b, x, epsilon, T0, T, L, R, alpha, x_gd, x_md, i, g, yi, score, proj>>

\* the rest of the prologue with L = l and R = r: the schedule, the results
\* matrix and its first column
Prologue(l, r) ==
    /\ L' = l /\ R' = r
    /\ IF epsilon # None
       THEN LET tf == IF algo = "pgd" THEN PgdTFloat(l, r, epsilon[1])
                      ELSE MdaTFloat(l, r, epsilon[1])
                al == IF algo = "pgd" THEN PgdAlpha(l, r, tf) ELSE MdaAlpha(l, r, tf)
            IN  /\ alpha' = al
                /\ IF ~IsFinite(tf)
                   THEN \* round(inf), round(nan)
                        /\ T' = T /\ pc' = "Raised"
                        /\ err' = IF IsNaN(tf) THEN "ValueError" ELSE "OverflowError"
                        /\ UNCHANGED <<x_gd, x_md>>
                   ELSE LET t == Horizon(tf, T)
                        IN  /\ t <= MaxT
                            /\ T' = <<t>>
                            /\ IF FirstColumnRaises(t)
                               THEN \* x[:,0] of an (m, 0) matrix
                                    /\ pc' = "Raised" /\ err' = "IndexError"
                                    /\ UNCHANGED <<x_gd, x_md>>
                               ELSE /\ pc' = "Iterating" /\ err' = err
                                    /\ IF algo = "pgd"
                                       THEN /\ x_gd' = [Zeros(m, t) EXCEPT ![1] = InitialPoint(x)]
                                            /\ x_md' = x_md
                                       ELSE /\ x_md' = [Zeros(m, t) EXCEPT ![1] = InitialPoint(x)]
                                            /\ x_gd' = x_gd
       ELSE IF T = None
            THEN \* 1/T with T = None
                 /\ pc' = "Raised" /\ err' = "TypeError"
                 /\ UNCHANGED <<T, alpha, x_gd, x_md>>
            ELSE /\ alpha' = IF algo = "pgd" THEN PgdAlpha(l, r, Int2F(T[1]))
                             ELSE MdaAlpha(l, r, Int2F(T[1]))
                 /\ T' = T
                 /\ pc' = "Iterating" /\ err' = err
                 /\ IF algo = "pgd"
                    THEN /\ x_gd' = [Zeros(m, T[1]) EXCEPT ![1] = InitialPoint(x)]
                         /\ x_md' = x_md
                    ELSE /\ x_md' = [Zeros(m, T[1]) EXCEPT ![1] = InitialPoint(x)]
                         /\ x_gd' = x_gd
    /\ UNCHANGED <<algo, A, b, x, epsilon, T0, i, g, yi, score, proj>>

PgdInit ==
    /\ pc = "Init" /\ algo = "pgd"
    /\ \E l \in PgdLs(A, m) : Prologue(l, PgdR)

MdaInit ==
    /\ pc = "Init" /\ algo = "mda"
    /\ Prologue(MdaL(A, m), MdaR(m))

\* one iteration of pgd's loop
PgdStep ==
    /\ pc = "Iterating" /\ algo = "pgd"
    /\ i < RangeEnd(T[1])
    /\ LET gi == subgrad(A, b, x_gd[i + 1])
           y == [j \in 1..m |-> Sub(x_gd[i + 1][j], Mul(alpha, gi[j]))]
       IN  /\ g' = gi /\ yi' = y
           /\ IF ProjectRaises(y)
              THEN /\ pc' = "Raised" /\ err' = "IndexError"
                   /\ UNCHANGED <<x_gd, i>>
              ELSE /\ WriteColumn(i) <= Len(x_gd)
                   /\ x_gd' = [x_gd EXCEPT ![WriteColumn(i)] = project_onto_simplex(y)]
                   /\ i' = i + 1
                   /\ UNCHANGED <<pc, err>>
    /\ UNCHANGED <<algo, A, b, x, epsilon, T0, T, L, R, alpha, x_md, score, proj>>

\* one iteration of mda's loop
MdaStep ==
    /\ pc = "Iterating" /\ algo = "mda"
    /\ i < RangeEnd(T[1])
    /\ LET gi == subgrad(A, b, x_md[i + 1])
           y == [j \in 1..m |-> Mul(x_md[i + 1][j], Exp(Mul(Neg(alpha), gi[j])))]
           tot == Sum(y)
       IN  /\ g' = gi /\ yi' = y
           /\ WriteColumn(i) <= Len(x_md)
           /\ x_md' = [x_md EXCEPT ![WriteColumn(i)] = [j \in 1..m |-> Div(y[j], tot)]]
           /\ i' = i + 1
    /\ UNCHANGED <<algo, A, b, x, epsilon, T0, T, L, R, alpha, x_gd, pc, err, score, proj>>

\* the loop is exhausted: return x_gd / return x_md
Return ==
    /\ pc = "Iterating"
    /\ i >= RangeEnd(T[1])
    /\ pc' = "Done"
    /\ UNCHANGED <<algo, A, b, x, epsilon, T0, T, L, R, alpha, x_gd, x_md, i, g, yi, err, score, proj>>

\* Results cell: objective(A, b, np.mean(<returned trajectory>, axis=1))
Score ==
    /\ pc = "Done"
    /\ score' = objective(A, b, Mean(Traj, m))
    /\ pc' = "Scored"
    /\ UNCHANGED <<algo, A, b, x, epsilon, T0, T, L, R, alpha, x_gd, x_md, i, g, yi, err, proj>>

Next == AssertArgs \/ PgdInit \/ MdaInit \/ PgdStep \/ MdaStep \/ Return \/ Score

Spec == Init /\ [][Next]_vars

\* ------------------------------------------ the projection on its own
\* project_onto_simplex applied to an arbitrary non-empty vector, and to its
\* own output
ProjValues ==
    {Int2F(-2), Int2F(-1), <<-1, 2>>, Zero, <<1, 4>>, <<1, 3>>, <<1, 2>>,
     <<2, 3>>, <<3, 4>>, One, Int2F(2), Int2F(3)}
ProjInputs == UNION {[1..k -> ProjValues] : k \in 1..MaxDim}

InitProj ==
    /\ algo = "pgd"
    /\ A = <<>> /\ b = <<>> /\ x = <<>>
    /\ epsilon = None /\ T0 = None /\ T = None
    /\ L = None /\ R = None /\ alpha = None
    /\ x_gd = <<>> /\ x_md = <<>>
    /\ i = 0 /\ g = None /\ yi = None
    /\ pc = "Projecting" /\ err = "" /\ score = None
    /\ \E v \in ProjInputs : proj = [stage |-> "in", v |-> v, p |-> <<>>, pp |-> <<>>]

Project ==
    /\ pc = "Projecting" /\ proj.stage = "in"
    /\ IF ProjectRaises(proj.v)
       THEN proj' = [proj EXCEPT !.stage = "raised"] /\ err' = "IndexError"
       ELSE proj' = [proj EXCEPT !.stage = "out", !.p = project_onto_simplex(proj.v)]
            /\ err' = err
    /\ UNCHANGED <<algo, A, b, x, epsilon, T0, T, L, R, alpha, x_gd, x_md, i, g, yi, pc, score>>

ProjectAgain ==
    /\ pc = "Projecting" /\ proj.stage = "out"
    /\ IF ProjectRaises(proj.p)
       THEN proj' = [proj EXCEPT !.stage = "raised"] /\ err' = "IndexError"
       ELSE proj' = [proj EXCEPT !.stage = "out2", !.pp = project_onto_simplex(proj.p)]
            /\ err' = err
    /\ UNCHANGED <<algo, A, b, x, epsilon, T0, T, L, R, alpha, x_gd, x_md, i, g, yi, pc, score>>

NextProj == Project \/ ProjectAgain

SpecProj == InitProj /\ [][NextProj]_vars

\* ---------------------------------------------------------------- properties
\* a point of the probability simplex: finite entries >= 0 that sum to 1
OnSimplex(v) ==
    /\ \A j \in 1..Len(v) : IsFinite(v[j]) /\ v[j][1] >= 0
    /\ Sum(v) = One

\* a point of the interior of the simplex: finite entries > 0 that sum to 1
InInterior(v) ==
    /\ \A j \in 1..Len(v) : IsFinite(v[j]) /\ v[j][1] > 0
    /\ Sum(v) = One

Uniform(cols) == [j \in 1..cols |-> <<1, cols>>]
Returned == pc \in {"Done", "Scored"}
\* the iterates written so far: x_0 .. x_i
Written == {c \in 1..Len(Traj) : c <= i + 1 \/ Returned}

\* C1: every iterate pgd has written, and every iterate of the trajectory it
\* returns, lies on the probability simplex (entries >= 0, sum 1).
C1_PgdIteratesOnSimplex ==
    algo = "pgd" => \A c \in Written : OnSimplex(x_gd[c])

\* a returned fixed-horizon pgd trajectory of three iterates whose last iterate
\* has left the uniform point and has a coordinate clipped to 0
C1_Witness ==
    /\ algo = "pgd" /\ pc = "Done" /\ epsilon = None /\ Len(x_gd) >= 3
    /\ x_gd[3] # x_gd[1]
    /\ \E j \in 1..m : x_gd[3][j] = Zero

\* C2: every iterate mda has written, the last one included, has all entries
\* strictly positive and sums to 1.
C2_MdaIteratesInInterior ==
    (algo = "mda" /\ epsilon = None) => \A c \in Written : InInterior(x_md[c])

C4_FirstIterateUniform ==
    Traj # <<>> => Traj[1] = Uniform(m)

\* a returned trajectory of a run whose argument x was not the uniform point
C4_Witness ==
    /\ pc = "Done" /\ x # Uniform(m) /\ Len(Traj) >= 2 /\ Traj[1] = Uniform(m)

\* C5: with neither epsilon nor T the call fails at once with an error: no L,
\* R, alpha or T is computed, no results matrix is allocated, no step runs.
C5_NeitherFailsFast ==
    (epsilon = None /\ T0 = None /\ pc # "Called") =>
        /\ pc = "Raised" /\ err = "AssertionError"
        /\ L = None /\ R = None /\ alpha = None /\ T = None
        /\ x_gd = <<>> /\ x_md = <<>>
        /\ i = 0 /\ g = None /\ yi = None

\* the call with neither argument has raised
C5_Witness ==
    epsilon = None /\ T0 = None /\ pc = "Raised" /\ err = "AssertionError"

\* the float horizon the epsilon branch derives from L, R and epsilon
DerivedHorizon ==
    Round(IF algo = "pgd" THEN Sq(Div(Mul(R, L), epsilon[1]))
          ELSE Mul(Sq(Div(Mul(R, L), epsilon[1])), Int2F(2)))

ObjectiveByRows(M, t, y) ==
    LET res == MatVec(M, y)
    IN  Div(Sum([r \in 1..Len(M) |-> FAbs(Sub(res[r], t[r]))]), Int2F(Len(M)))

\* C7: objective(A, b, x) = (1/n) * sum_i |a_i . x - b_i| with n the number of
\* rows of A (here at the averaged iterate the Results cell scores).
C7_ObjectiveNormalisedByRows ==
    pc = "Scored" => score = ObjectiveByRows(A, b, Mean(Traj, m))

\* (1/n) * A^T sign(Ax - b), n the number of rows of A, sign(0) = 0
SubgradByRows(M, t, y) ==
    LET res == MatVec(M, y)
        s == [r \in 1..Len(M) |-> Int2F(Sgn(Sub(res[r], t[r])[1]))]
        tv == TMatVec(M, s, Len(y))
    IN  [j \in 1..Len(y) |-> Div(tv[j], Int2F(Len(M)))]

\* the iterate the last loop iteration read
LastRead == IF pc = "Raised" THEN Traj[i + 1] ELSE Traj[i]

\* C8: the subgradient a step computes is (1/n) * A^T sign(A x_i - b) with n
\* the number of rows of A and sign(0) = 0.
C8_SubgradNormalisedByRows ==
    (g # None /\ \A j \in 1..m : IsFinite(LastRead[j])) =>
        g = SubgradByRows(A, b, LastRead)

\* C9: the projection of every non-empty real vector is returned (no error)
\* and has all entries >= 0 and entries summing to 1.
C9_ProjectionOnSimplex ==
    pc = "Projecting" =>
        /\ proj.stage # "raised"
        /\ proj.stage \in {"out", "out2"} => OnSimplex(proj.p)

\* a vector of three entries of mixed signs, off the simplex, was projected
C9_Witness ==
    /\ pc = "Projecting" /\ proj.stage = "out" /\ Len(proj.v) = 3
    /\ \E j \in 1..3 : proj.v[j][1] < 0
    /\ \E j \in 1..3 : Lt(One, proj.v[j])
    /\ proj.p # proj.v /\ \E j, k \in 1..3 : j # k /\ proj.p[j][1] > 0 /\ proj.p[k][1] > 0

\* C10: the projection is the identity on the simplex, hence idempotent:
\* project(x) = x for x on the simplex, project(project(v)) = project(v).
C10_ProjectionIdentityOnSimplex ==
    pc = "Projecting" =>
        /\ (proj.stage \in {"out", "out2"} /\ OnSimplex(proj.v)) => proj.p = proj.v
        /\ proj.stage = "out2" => proj.pp = proj.p

\* a non-uniform simplex point with a zero coordinate was projected twice
C10_Witness ==
    /\ pc = "Projecting" /\ proj.stage = "out2" /\ Len(proj.v) = 3
    /\ OnSimplex(proj.v) /\ proj.v # Uniform(3)
    /\ \E j \in 1..3 : proj.v[j] = Zero
    /\ proj.pp = proj.v

\* u is v arranged in descending order
DescendingArrangement(v, u) ==
    /\ \A k \in 1..(Len(v) - 1) : ~Lt(u[k], u[k + 1])
    /\ \A a \in {v[j] : j \in 1..Len(v)} :
          Cardinality({j \in 1..Len(v) : u[j] = a}) = Cardinality({j \in 1..Len(v) : v[j] = a})

\* v projected with threshold taken at the last position k of u where
\* u[k] > ((u[1] + .. + u[k]) - 1) / k
ThresholdedAtLast(v, u, p) ==
    LET cs(k) == Sub(Sum(SubSeq(u, 1, k)), One)
        ok(k) == Lt(Div(cs(k), Int2F(k)), u[k])
    IN  \E rho \in 1..Len(v) :
           /\ ok(rho)
           /\ \A k \in (rho + 1)..Len(v) : ~ok(k)
           /\ p = [j \in 1..Len(v) |->
                     LET d == Sub(v[j], Div(cs(rho), Int2F(rho)))
                     IN  IF d[1] > 0 THEN d ELSE Zero]

\* C11: the projection returns max(v - theta, 0) with u = v sorted descending,
\* cssv[k] = u[0] + .. + u[k] - 1, rho the largest position with
\* u[rho] > cssv[rho]/(rho+1) and theta = cssv[rho]/(rho+1); and
\* project([3, 1, -2]) = [1, 0, 0] exactly.
C11_ProjectionAlgorithm ==
    pc = "Projecting" =>
        /\ proj.stage \in {"out", "out2"} =>
              \E u \in [1..Len(proj.v) -> {proj.v[j] : j \in 1..Len(proj.v)}] :
                 /\ DescendingArrangement(proj.v, u)
                 /\ ThresholdedAtLast(proj.v, u, proj.p)
        /\ (proj.v = <<Int2F(3), One, Int2F(-2)>> /\ proj.stage # "in") =>
              (proj.stage # "raised" /\ proj.p = <<One, Zero, Zero>>)

\* [3, 1, -2] was projected
C11_Witness ==
    /\ pc = "Projecting" /\ proj.stage = "out"
    /\ proj.v = <<Int2F(3), One, Int2F(-2)>> /\ proj.p = <<One, Zero, Zero>>

AllNegative(v) == \A j \in 1..Len(v) : v[j][1] < 0
\* one-hot at the position(s) of the largest coordinate of v
OneHotAtLargest(v, p) ==
    \E k \in 1..Len(v) :
       /\ \A j \in 1..Len(v) : ~Lt(v[k], v[j])
       /\ p = [j \in 1..Len(v) |-> IF j = k THEN One ELSE Zero]

\* C12 (as claimed): the projection of every vector whose entries are all
\* negative is one-hot at the largest coordinate.
C12_AllNegativeOneHot ==
    (pc = "Projecting" /\ proj.stage = "out" /\ AllNegative(proj.v)) =>
        OneHotAtLargest(proj.v, proj.p)

\* the largest coordinate exceeds every other coordinate by at least 1
LeadsByOne(v) ==
    \E k \in 1..Len(v) : \A j \in 1..Len(v) : j # k => ~Lt(v[k], Add(v[j], One))

\* C12 (amended): the projection of a vector whose entries are all negative
\* and whose largest coordinate exceeds every other by at least 1 is one-hot
\* at the largest coordinate; when the lead is less than 1 the projection has
\* more than one positive entry.
C12_AllNegativeLeadingOneHot ==
    (pc = "Projecting" /\ proj.stage = "out" /\ AllNegative(proj.v)) =>
        IF LeadsByOne(proj.v) THEN OneHotAtLargest(proj.v, proj.p)
        ELSE Cardinality({j \in 1..Len(proj.v) : proj.p[j][1] > 0}) >= 2

\* an all-negative vector of three entries with a clear leader was projected
C12_Witness ==
    /\ pc = "Projecting" /\ proj.stage = "out" /\ Len(proj.v) = 3
    /\ AllNegative(proj.v) /\ LeadsByOne(proj.v)
    /\ proj.p = <<Zero, One, Zero>>

\* ------------------------------------------------------------- the schedule
\* the step size of the fixed-T branch has been computed from the T passed in
FixedSchedule == epsilon = None /\ alpha # None

\* max_j sum_i |A[i,j]| divided by the number of rows of A
MdaLByRows == Div(VecMax(ColAbsSums(A, m)), Int2F(n))

\* C13: mda's Lipschitz proxy is L = (1/n) * max_j sum_i |A[i,j]| with n the
\* number of rows of A, R = sqrt(log m) (rho = 1), and with T supplied
\* alpha = (R/L) * sqrt(2*rho/T).
C13_MdaLipschitzByRows ==
    (algo = "mda" /\ L # None) =>
        /\ L = MdaLByRows
        /\ R = Sqrt(Log(m))
        /\ FixedSchedule =>
              alpha = Mul(Div(R, L), Sqrt(Div(Int2F(2), Int2F(T[1]))))

\* the largest eigenvalue of A^T A
LambdaMax ==
    LET S == Eigvals(Gram(A, m))
    IN  CHOOSE lam \in S : \A mu \in S : ~Lt(lam, mu)

\* C14: pgd's Lipschitz proxy is L = sqrt(lambda_max(A^T A)), the square root
\* of the largest eigenvalue, whatever the order of the eigenvalues; R = 1 and
\* with T supplied alpha = (R/L) * sqrt(1/T).
C14_PgdLipschitzSpectralNorm ==
    (algo = "pgd" /\ L # None) =>
        /\ L = Sqrt(LambdaMax)
        /\ R = One
        /\ FixedSchedule =>
              alpha = Mul(Div(R, L), Sqrt(Div(One, Int2F(T[1]))))

\* the epsilon branch has completed: the run iterates on its derived schedule
EpsilonSchedule == epsilon # None /\ pc \in {"Iterating", "Done", "Scored"}

\* C15: in epsilon mode the pair (T, alpha) the run uses satisfies the closed
\* form of fixed-T mode with T the rounded horizon: T = round((R*L/eps)^2),
\* alpha = (R/L)*sqrt(1/T) for pgd; T = round(2*(R*L/eps)^2/rho),
\* alpha = (R/L)*sqrt(2*rho/T) for mda.
C15_EpsilonScheduleClosedForm ==
    EpsilonSchedule =>
        /\ T = <<DerivedHorizon>>
        /\ alpha = IF algo = "pgd"
                   THEN Mul(Div(R, L), Sqrt(Div(One, Int2F(T[1]))))
                   ELSE Mul(Div(R, L), Sqrt(Div(Int2F(2), Int2F(T[1]))))

\* C16: when the Lipschitz estimate L computed from A is not positive, the
\* run fails in the schedule computation, before any iteration step: no step
\* size, no trajectory, no subgradient.
C16_NonPositiveLipschitzFails ==
    (L # None /\ ~Lt(Zero, L)) =>
        /\ pc = "Raised"
        /\ alpha = None /\ Traj = <<>>
        /\ i = 0 /\ g = None

\* C17: mda's exponent is stabilised by subtracting max(-alpha*g), so the
\* coordinate of the largest exponent is multiplied by exp(0) = 1, and the
\* normaliser sum(y) is strictly positive at every step.
C17_MdaExponentStabilised ==
    (algo = "mda" /\ yi # None) =>
        /\ \E j \in 1..m : yi[j] = LastRead[j]
        /\ Lt(Zero, Sum(yi))

\* ------------------------------------------------------------ the loop frame
\* x_i - alpha * gi
GradientPoint(v, gi) == [j \in 1..Len(v) |-> Sub(v[j], Mul(alpha, gi[j]))]

\* x_i * exp(-alpha * gi), normalised to sum 1
ExponentiatedPoint(v, gi) ==
    LET w == [j \in 1..Len(v) |-> Mul(v[j], Exp(Mul(Neg(alpha), gi[j])))]
    IN  [j \in 1..Len(v) |-> Div(w[j], Sum(w))]

\* what a transition taken while iterating may change
IterationFrame ==
    pc = "Iterating" =>
        /\ A' = A /\ b' = b /\ x' = x
        /\ T' = T /\ alpha' = alpha /\ L' = L /\ R' = R
        /\ Len(Traj') = Len(Traj)
        /\ \A c \in 1..Len(Traj) : c <= i + 1 => Traj'[c] = Traj[c]
        /\ i' \in {i, i + 1}
        /\ i' = i + 1 =>
              /\ g' = subgrad(A, b, Traj[i + 1])
              /\ Traj'[i + 2] = IF algo = "pgd"
                                THEN project_onto_simplex(GradientPoint(Traj[i + 1], g'))
                                ELSE ExponentiatedPoint(Traj[i + 1], g')
              /\ \A c \in 1..Len(Traj) : c # i + 2 => Traj'[c] = Traj[c]

\* C18: the trajectory is append-only and the schedule is frozen: step i reads
\* iterate x_i and the fixed (T, alpha), writes only iterate x_{i+1} (the
\* projection of x_i - alpha*subgrad(A,b,x_i) for pgd, the normalised
\* x_i*exp(-alpha*g) for mda), and leaves x_0 .. x_i, (T, alpha) and the inputs
\* A, b, x unchanged.
C18_TrajectoryAppendOnly == [][IterationFrame]_vars

\* two steps have each written a new iterate that differs from the one read,
\* and the run returned all three
C18_Witness ==
    /\ pc = "Done" /\ i = 2 /\ Len(Traj) = 3
    /\ Traj[1] = Uniform(m)
    /\ Traj[2] # Traj[1] /\ Traj[3] # Traj[2]
    /\ \A c \in 1..3 : OnSimplex(Traj[c])

\* ---------------------------------------------------------- the zero horizon
\* C19: in epsilon mode, when the derived horizon rounds to 0 (which includes
\* every mda run with m = 1, where R = sqrt(log 1) = 0), the run raises while
\* writing the initial point into the zero-length trajectory, before any
\* update step, and no run returns an empty trajectory.
C19_ZeroHorizonRaises ==
    /\ (epsilon # None /\ L # None /\ DerivedHorizon = 0) =>
          /\ pc = "Raised" /\ err = "IndexError"
          /\ T = <<0>> /\ Traj = <<>>
          /\ i = 0 /\ g = None /\ yi = None
    /\ (algo = "mda" /\ m = 1 /\ epsilon # None /\ L # None) => DerivedHorizon = 0
    /\ Returned => Len(Traj) >= 1

\* a pgd run with a positive Lipschitz estimate whose accuracy target is so
\* loose that the horizon rounds to 0 has raised
C19_Witness ==
    /\ algo = "pgd" /\ epsilon # None /\ L # None /\ Lt(Zero, L)
    /\ DerivedHorizon = 0 /\ T = <<0>>
    /\ pc = "Raised" /\ err = "IndexError"
====
